---------------------------- MODULE Spec2Model ----------------------------
(***************************************************************************)
(* Multi-tenant HR backend (luva_backend): the tenant registry             *)
(* ("Company Master"), the per-tenant employee tables "<code>_Employees",  *)
(* the shared team tables, and the request handlers that read and write    *)
(* them.  Every handler runs in its own database session against MySQL;    *)
(* one action models one whole request.                                    *)
(***************************************************************************)
EXTENDS Integers, Sequences, FiniteSets, TLC

VARIABLES
    company_master,   \* rows of the table "Company Master"
    employee_tables,  \* table name -> [rows, auto] for each existing "<code>_Employees"
    employee_teams,   \* rows of the shared table "Employee Teams"
    teams_auto,       \* AUTO_INCREMENT counter of "Employee Teams"
    team_mapping,     \* rows of the shared table "Employee Team Mapping", in insert order
    mapping_unique,   \* whether the deployed mapping table has a unique key on (team, employee)
    last,             \* the last request and its response
    prev,             \* the request before it to a non-team endpoint (body dropped)
    nops,             \* requests served so far
    created_teams,    \* history: ids of the teams create_team has answered for
    added_members,    \* history: team id -> employee codes added and not removed since
    team_tables,      \* table name -> rows for each existing "<code>_Teams"
    teams_cascade,    \* whether the deployed team tables reference "Company Master"
                      \* with ON DELETE CASCADE
    sessions          \* the requests served statement by statement: session -> position

vars == << company_master, employee_tables, employee_teams, teams_auto, team_mapping,
           mapping_unique, last, prev, nops, created_teams, added_members, team_tables,
           teams_cascade, sessions >>

dbvars == << company_master, employee_tables, employee_teams, teams_auto, team_mapping,
             team_tables >>
teamvars == << employee_teams, teams_auto, team_mapping, created_teams, added_members,
               team_tables >>

----------------------------------------------------------------------------
(* Bounds and input domains *)

MaxOps == 2          \* requests per behaviour of Spec
MaxTeamOps == 5      \* requests per behaviour of SpecTeams
MaxOwnerOps == 3     \* requests per behaviour of SpecOwnership

CompanyCodes == {"ACME", "GLOBEX"}
EmployeeCodes == {"E1", "E2"}
Salts == {"saltA", "saltB"}
TeamNames == {"Sales", "Ops"}

\* Company Master ids of the tenants provisioned before the service starts.
SeedCompanyId(code) == IF code = "ACME" THEN 1 ELSE 2

\* The non-key fields of an EmployeeCreate request (employee_crud.py: EmployeeCreate).
Profiles ==
    { [first_name |-> "Ann", last_name |-> "Lee", email |-> "ann@x.io", mobile |-> "111",
       designation |-> "Dev", role |-> "Employee", password |-> "pw1"],
      [first_name |-> "Bob", last_name |-> "Ray", email |-> "bob@x.io", mobile |-> "222",
       designation |-> "Lead", role |-> "Admin", password |-> "pw2"] }

EmployeeCreate(company_code, employee_code, p) ==
    [company_code |-> company_code, employee_code |-> employee_code,
     first_name |-> p.first_name, last_name |-> p.last_name, email |-> p.email,
     mobile |-> p.mobile, designation |-> p.designation, role |-> p.role,
     password |-> p.password]

\* The add_employee requests.
EmployeeCreates ==
    {EmployeeCreate(c, e, p) : c \in CompanyCodes, e \in EmployeeCodes, p \in Profiles}

\* An Optional field: <<>> is None, <<v>> is the value v.
None == << >>
Some(v) == << v >>

\* EmployeeUpdate requests: every field Optional, default None.
NoUpdate ==
    [first_name |-> None, last_name |-> None, email |-> None, mobile |-> None,
     designation |-> None, active |-> None]

EmployeeUpdates ==
    { NoUpdate,
      [NoUpdate EXCEPT !.first_name = Some("Zed")],
      [NoUpdate EXCEPT !.email = Some("new@x.io"), !.active = Some(FALSE)],
      [first_name |-> Some("Cy"), last_name |-> Some("Poe"), email |-> Some("cy@x.io"),
       mobile |-> Some("333"), designation |-> Some("QA"), active |-> Some(TRUE)] }

----------------------------------------------------------------------------
(* Responses *)

NoArg == << >>
NoBody == << >>

Request(op, key, code, arg) ==
    [op |-> op, key |-> key, code |-> code, arg |-> arg,
     existed |-> \E c \in company_master : c.company_code = key]

\* A handler's answer: HTTP status, detail (an HTTPException's detail, or the class of
\* an exception no handler caught, which the framework turns into a bare 500) and body.
Response(req, status, detail, body) ==
    [op |-> req.op, key |-> req.key, code |-> req.code, arg |-> req.arg,
     existed |-> req.existed, status |-> status, detail |-> detail, body |-> body]

NoRequest ==
    [op |-> "none", key |-> "", code |-> "", arg |-> NoArg, existed |-> FALSE,
     status |-> 0, detail |-> "", body |-> NoBody]

\* A request to a company, employee or login endpoint is answered: the response
\* replaces last, the old last becomes prev.
Answer(resp) ==
    /\ last' = resp
    /\ prev' = [last EXCEPT !.body = NoBody]
    /\ nops' = nops + 1
    /\ UNCHANGED << sessions, teams_cascade >>

\* A request to a team endpoint is answered (prev follows the other endpoints only).
AnswerTeam(resp) ==
    /\ last' = resp
    /\ nops' = nops + 1
    /\ UNCHANGED << prev, sessions, teams_cascade >>

\* The requests that are served one statement at a time (get_db gives every request
\* a database session of its own).
Sessions == {"s1", "s2"}

NewSession == [pc |-> "new", req |-> NoRequest, resp |-> NoRequest, had_table |-> FALSE]

NoSessions == [s \in Sessions |-> NewSession]

----------------------------------------------------------------------------
(* database.py *)

\* The attributes the declarative class CompanyMaster maps.
CompanyMasterColumns ==
    {"id", "company_code", "company_name", "company_address", "company_city",
     "company_state", "company_country", "active"}

\* The declarative constructor: a keyword that is no attribute of the class raises
\* TypeError.
CompanyMasterAccepts(kwargs) == kwargs \subseteq CompanyMasterColumns

EmployeeTableName(company_code) == company_code \o "_Employees"

\* inspect(engine).has_table(table_name)
HasTable(table_name) == table_name \in DOMAIN employee_tables

get_employee_model_for_company(company_code) ==
    IF ~HasTable(EmployeeTableName(company_code))
    THEN None
    ELSE Some(EmployeeTableName(company_code))

----------------------------------------------------------------------------
(* SQL helpers *)

\* Fault: the filter compares the company name, not the company code.
QueryCompanyByName(code) == {c \in company_master : c.company_name = code}

\* db.query(CompanyMaster).filter(CompanyMaster.company_code == code)
QueryCompany(code) == {c \in company_master : c.company_code = code}

Max(S) == CHOOSE x \in S : \A y \in S : y <= x
NextCompanyId == IF company_master = {} THEN 1 ELSE 1 + Max({c.id : c \in company_master})

SeqToSet(s) == {s[i] : i \in 1..Len(s)}

EmptyTable == [rows |-> << >>, auto |-> 1]

\* The sequences that list the elements of S once each.
Orderings(S) ==
    {s \in [1..Cardinality(S) -> S] : \A i, j \in 1..Cardinality(S) : s[i] = s[j] => i = j}

----------------------------------------------------------------------------
(* company/company_crud.py *)

CompanyName(code) == code \o " Ltd"

\* A CompanyCreate request; the two optional contact fields are left unset.
CompanyCreate(code) ==
    [company_code |-> code, company_name |-> CompanyName(code),
     company_email |-> None, company_phone_number |-> None]

\* The create_company requests.
CompanyCreates == {CompanyCreate(c) : c \in CompanyCodes}

\* The keywords create_company passes to CompanyMaster(...).
CreateCompanyKwargs ==
    {"company_code", "company_name", "company_address", "company_city", "company_state",
     "company_country", "company_email", "company_phone_number", "active"}

NewCompanyRow(data) ==
    [id |-> NextCompanyId, company_code |-> data.company_code,
     company_name |-> data.company_name, active |-> TRUE]

\* CREATE TABLE IF NOT EXISTS `<code>_Employees` (...)
CreateEmployeeTable(tables, table_name) ==
    IF table_name \in DOMAIN tables THEN tables ELSE tables @@ (table_name :> EmptyTable)

\* DROP TABLE IF EXISTS `<code>_Employees`
DropEmployeeTable(tables, table_name) ==
    [t \in DOMAIN tables \ {table_name} |-> tables[t]]

\* What db.delete(company) leaves of a shared team table: its rows for the company go
\* with the registry row if the table was deployed with ON DELETE CASCADE, and stay
\* otherwise (the statement itself names only "Company Master").
CascadeDelete(rows, company_code) ==
    LET Keep(r) == r.Company_Code # company_code
    IN IF teams_cascade THEN SelectSeq(rows, Keep) ELSE rows

\* POST /company/create_company.  ddl_ok: whether the server accepts the CREATE TABLE.
create_company(data, ddl_ok) ==
    LET req == Request("create_company", data.company_code, "", NoArg)
        db_company == QueryCompany(data.company_code)
    IN
    /\ nops < MaxOps
    /\ UNCHANGED << teamvars, mapping_unique >>
    /\ IF db_company # {}
       THEN /\ Answer(Response(req, 400, "Company code already exists.", NoBody))
            /\ UNCHANGED << company_master, employee_tables >>
       ELSE IF ~CompanyMasterAccepts(CreateCompanyKwargs)
       THEN \* CompanyMaster(...) raises before the try block: nothing is written
            /\ Answer(Response(req, 500, "TypeError", NoBody))
            /\ UNCHANGED << company_master, employee_tables >>
       ELSE \* db.add; db.commit: the registry row is committed before the DDL runs
            /\ company_master' = company_master \cup {NewCompanyRow(data)}
            /\ IF ddl_ok
               THEN /\ employee_tables' =
                          CreateEmployeeTable(employee_tables,
                                              EmployeeTableName(data.company_code))
                    /\ Answer(Response(req, 200,
                                       "Company created and employee table initialized.",
                                       NoBody))
               ELSE /\ UNCHANGED employee_tables
                    /\ Answer(Response(req, 500,
                                       "An error occurred during table creation", NoBody))

\* DELETE /company/delete_company/{company_code}
delete_company(company_code) ==
    LET req == Request("delete_company", company_code, "", NoArg)
        company == QueryCompany(company_code)
    IN
    /\ nops < MaxOps
    /\ UNCHANGED << teams_auto, created_teams, added_members, team_tables,
                    mapping_unique >>
    /\ IF company = {}
       THEN /\ Answer(Response(req, 404, "Company not found.", NoBody))
            /\ UNCHANGED << company_master, employee_tables, employee_teams,
                            team_mapping >>
       ELSE /\ employee_tables' =
                  DropEmployeeTable(employee_tables, EmployeeTableName(company_code))
            /\ company_master' = company_master \ company
            /\ employee_teams' = CascadeDelete(employee_teams, company_code)
            /\ team_mapping' = CascadeDelete(team_mapping, company_code)
            /\ Answer(Response(req, 200,
                               "Company and its employee table deleted successfully.",
                               NoBody))

----------------------------------------------------------------------------
(* employee/employee_crud.py *)

\* bcrypt.hashpw(password, bcrypt.gensalt()): a salted digest, never the plaintext.
hash_password(password, salt) == "$2b$12$" \o salt \o "$" \o password

\* The row the INSERT of add_employee writes: its ten bound parameters, the id the
\* table assigns, and the column the statement leaves to its default.
EmployeeRow(id, params) ==
    [Id |-> id, Company_Code |-> params.company_code,
     Employee_Code |-> params.employee_code, First_Name |-> params.first_name,
     Last_Name |-> params.last_name, Email |-> params.email, Mobile |-> params.mobile,
     Designation |-> params.designation, Role |-> params.role,
     Password |-> params.password, Picture |-> None, Active |-> params.active]

\* The rows of a table whose `Employee Code` is employee_code, in table order.
RowsWithCode(t, employee_code) ==
    LET Match(r) == r.Employee_Code = employee_code IN SelectSeq(t.rows, Match)

\* Fault: the employee table has no UNIQUE key on `Employee Code`.
InsertEmployeeUnchecked(t, params) ==
    [error |-> "",
     table |-> [rows |-> Append(t.rows, EmployeeRow(t.auto, params)), auto |-> t.auto + 1]]

\* INSERT INTO `<table>`: `Employee Code` is UNIQUE, so a second row for a code is
\* refused with IntegrityError.
InsertEmployee(t, params) ==
    IF RowsWithCode(t, params.employee_code) # << >>
    THEN [error |-> "IntegrityError", table |-> t]
    ELSE [error |-> "",
          table |-> [rows |-> Append(t.rows, EmployeeRow(t.auto, params)),
                     auto |-> t.auto + 1]]

\* POST /employee/add_employee
add_employee(data, salt) ==
    LET req == Request("add_employee", data.company_code, data.employee_code, Some(data))
        company == QueryCompany(data.company_code)
        hashed_pw == hash_password(data.password, salt)
        employee_table_name == EmployeeTableName(data.company_code)
        params == [company_code |-> data.company_code,
                   employee_code |-> data.employee_code,
                   first_name |-> data.first_name, last_name |-> data.last_name,
                   email |-> data.email, mobile |-> data.mobile,
                   designation |-> data.designation, role |-> data.role,
                   password |-> hashed_pw, active |-> TRUE]
    IN
    /\ nops < MaxOps
    /\ UNCHANGED << company_master, teamvars, mapping_unique >>
    /\ IF company = {}
       THEN /\ Answer(Response(req, 404, "Company does not exist.", NoBody))
            /\ UNCHANGED employee_tables
       ELSE IF employee_table_name \notin DOMAIN employee_tables
       THEN \* the INSERT fails with "table doesn't exist"; only IntegrityError is caught
            /\ Answer(Response(req, 500, "ProgrammingError", NoBody))
            /\ UNCHANGED employee_tables
       ELSE LET ins == InsertEmployee(employee_tables[employee_table_name], params) IN
            IF ins.error = "IntegrityError"
            THEN /\ Answer(Response(req, 400, "Employee code or email already exists.",
                                    NoBody))
                 /\ UNCHANGED employee_tables
            ELSE /\ employee_tables' =
                       [employee_tables EXCEPT ![employee_table_name] = ins.table]
                 /\ Answer(Response(req, 200, "Employee added successfully.", NoBody))

\* Fault: the SELECT has no WHERE clause, so fetchone() gives the table's first row.
FetchFirstRow(t, employee_code) ==
    IF t.rows = << >> THEN None ELSE Some(Head(t.rows))

\* SELECT * FROM `<table>` WHERE `Employee Code` = :employee_code, .fetchone()
FetchEmployee(t, employee_code) ==
    LET found == RowsWithCode(t, employee_code)
    IN IF found = << >> THEN None ELSE Some(Head(found))

\* GET /employee/get_employee/{company_code}/{employee_code}
get_employee(company_code, employee_code) ==
    LET req == Request("get_employee", company_code, employee_code, NoArg)
        employee_table_name == EmployeeTableName(company_code)
    IN
    /\ nops < MaxOps
    /\ UNCHANGED << dbvars, created_teams, added_members, mapping_unique >>
    /\ IF employee_table_name \notin DOMAIN employee_tables
       THEN \* the SELECT fails with "table doesn't exist" and nothing catches it
            Answer(Response(req, 500, "ProgrammingError", NoBody))
       ELSE LET result == FetchEmployee(employee_tables[employee_table_name],
                                        employee_code)
            IN IF result = None
               THEN Answer(Response(req, 404, "Employee not found.", NoBody))
               ELSE Answer(Response(req, 200, "", result))

\* Fault: every column is put in the SET clause, supplied or not.
UpdateColumnsAll(data) ==
    {"first_name", "last_name", "email", "mobile", "designation", "active"}

\* The columns update_employee puts in its SET clause: the fields that are not None.
UpdateColumns(data) ==
    {f \in {"first_name", "last_name", "email", "mobile", "designation", "active"} :
        data[f] # None}

\* One row after UPDATE ... SET <updates>.
UpdateRow(r, data) ==
    [r EXCEPT
       !.First_Name = IF data.first_name # None THEN data.first_name[1] ELSE @,
       !.Last_Name = IF data.last_name # None THEN data.last_name[1] ELSE @,
       !.Email = IF data.email # None THEN data.email[1] ELSE @,
       !.Mobile = IF data.mobile # None THEN data.mobile[1] ELSE @,
       !.Designation = IF data.designation # None THEN data.designation[1] ELSE @,
       !.Active = IF data.active # None THEN data.active[1] ELSE @]

\* UPDATE `<table>` SET ... WHERE `Employee Code` = :employee_code
UpdateEmployeeRows(t, employee_code, data) ==
    [t EXCEPT !.rows =
        [i \in 1..Len(t.rows) |->
            IF t.rows[i].Employee_Code = employee_code
            THEN UpdateRow(t.rows[i], data)
            ELSE t.rows[i]]]

\* PUT /employee/update_employee/{company_code}/{employee_code}
update_employee(company_code, employee_code, data) ==
    LET req == Request("update_employee", company_code, employee_code, Some(data))
        employee_table_name == EmployeeTableName(company_code)
        updates == UpdateColumns(data)
    IN
    /\ nops < MaxOps
    /\ UNCHANGED << company_master, teamvars, mapping_unique >>
    /\ IF updates = {}
       THEN /\ Answer(Response(req, 400, "No fields to update.", NoBody))
            /\ UNCHANGED employee_tables
       ELSE IF employee_table_name \notin DOMAIN employee_tables
       THEN /\ Answer(Response(req, 500, "ProgrammingError", NoBody))
            /\ UNCHANGED employee_tables
       ELSE \* the statement's row count is never read
            /\ employee_tables' =
                  [employee_tables EXCEPT ![employee_table_name] =
                      UpdateEmployeeRows(@, employee_code, data)]
            /\ Answer(Response(req, 200, "Employee updated successfully.", NoBody))

\* DELETE FROM `<table>` WHERE `Employee Code` = :employee_code
DeleteEmployeeRows(t, employee_code) ==
    LET Keep(r) == r.Employee_Code # employee_code
    IN [t EXCEPT !.rows = SelectSeq(t.rows, Keep)]

\* DELETE /employee/delete_employee/{company_code}/{employee_code}
delete_employee(company_code, employee_code) ==
    LET req == Request("delete_employee", company_code, employee_code, NoArg)
        employee_table_name == EmployeeTableName(company_code)
    IN
    /\ nops < MaxOps
    /\ UNCHANGED << company_master, teamvars, mapping_unique >>
    /\ IF employee_table_name \notin DOMAIN employee_tables
       THEN /\ Answer(Response(req, 500, "ProgrammingError", NoBody))
            /\ UNCHANGED employee_tables
       ELSE /\ employee_tables' =
                  [employee_tables EXCEPT ![employee_table_name] =
                      DeleteEmployeeRows(@, employee_code)]
            /\ Answer(Response(req, 200, "Employee deleted successfully.", NoBody))

TeamTableName(company_code) == company_code \o "_Teams"

\* CREATE TABLE IF NOT EXISTS `<code>_Teams` (...)
CreateTeamTable(tables, table_name) ==
    IF table_name \in DOMAIN tables THEN tables ELSE tables @@ (table_name :> EmptyTable)

\* INSERT INTO `<code>_Teams`: `Team Name` is UNIQUE.
InsertTeam(t, params) ==
    IF \E i \in 1..Len(t.rows) : t.rows[i].Team_Name = params.team_name
    THEN [error |-> "IntegrityError", table |-> t]
    ELSE [error |-> "",
          table |-> [rows |-> Append(t.rows,
                                     [Id |-> t.auto, Team_Name |-> params.team_name,
                                      Team_Description |-> params.team_description]),
                     auto |-> t.auto + 1]]

\* POST /employee/add_team
add_team(data) ==
    LET req == Request("add_team", data.company_code, "", Some(data))
        company == QueryCompany(data.company_code)
        team_table_name == TeamTableName(data.company_code)
        created == CreateTeamTable(team_tables, team_table_name)
        ins == InsertTeam(created[team_table_name],
                          [team_name |-> data.team_name,
                           team_description |-> data.team_description])
    IN
    /\ nops < MaxOps
    /\ UNCHANGED << company_master, employee_tables, employee_teams, teams_auto,
                    team_mapping, created_teams, added_members, mapping_unique >>
    /\ IF company = {}
       THEN /\ Answer(Response(req, 404, "Company does not exist.", NoBody))
            /\ UNCHANGED team_tables
       ELSE IF ins.error = "IntegrityError"
       THEN \* the CREATE TABLE was committed before the INSERT ran
            /\ team_tables' = created
            /\ Answer(Response(req, 400, "Team with this name already exists.", NoBody))
       ELSE /\ team_tables' = [created EXCEPT ![team_table_name] = ins.table]
            /\ Answer(Response(req, 200, "Team added successfully.", NoBody))

----------------------------------------------------------------------------
(* login/superadmin_login.py *)

\* SELECT COUNT(*) FROM `<table>`: raises when the table does not exist.
CountEmployees(table_name) ==
    IF table_name \notin DOMAIN employee_tables
    THEN [raised |-> TRUE, count |-> 0]
    ELSE [raised |-> FALSE, count |-> Len(employee_tables[table_name].rows)]

CompanyEntry(company, employees_count) ==
    [company_id |-> company.id, company_name |-> company.company_name,
     company_code |-> company.company_code, employees_count |-> employees_count]

\* Fault: the except branch of the loop skips the company instead of listing it.
RECURSIVE DashboardLoopSkipping(_, _, _)
DashboardLoopSkipping(companies, total_employees_count, companies_list) ==
    IF companies = << >>
    THEN [employees_count |-> total_employees_count, companies_list |-> companies_list]
    ELSE LET company == Head(companies)
             counted == CountEmployees(EmployeeTableName(company.company_code))
         IN IF counted.raised
            THEN DashboardLoopSkipping(Tail(companies), total_employees_count,
                                       companies_list)
            ELSE DashboardLoopSkipping(Tail(companies),
                                       total_employees_count + counted.count,
                                       Append(companies_list,
                                              CompanyEntry(company, counted.count)))

\* The loop of get_dashboard_data over the companies not yet visited.
RECURSIVE DashboardLoop(_, _, _)
DashboardLoop(companies, total_employees_count, companies_list) ==
    IF companies = << >>
    THEN [employees_count |-> total_employees_count, companies_list |-> companies_list]
    ELSE LET company == Head(companies)
             counted == CountEmployees(EmployeeTableName(company.company_code))
         IN IF counted.raised
            THEN \* except Exception: the company is listed with no employees
                 DashboardLoop(Tail(companies), total_employees_count,
                               Append(companies_list, CompanyEntry(company, 0)))
            ELSE DashboardLoop(Tail(companies), total_employees_count + counted.count,
                               Append(companies_list,
                                      CompanyEntry(company, counted.count)))

\* companies: db.query(CompanyMaster).all(), in the order the server returns the rows.
get_dashboard_data(companies) ==
    LET looped == DashboardLoop(companies, 0, << >>)
    IN [companies_count |-> Len(companies),
        employees_count |-> looped.employees_count,
        companies_list |-> looped.companies_list]

\* POST /superadmin/login from a trusted device with the right credentials (and
\* /verify after its code check): the response carries get_dashboard_data(db).
login(companies) ==
    LET req == Request("login", "", "", NoArg) IN
    /\ nops < MaxOps
    /\ UNCHANGED << dbvars, created_teams, added_members, mapping_unique >>
    /\ Answer(Response(req, 200, "", Some(get_dashboard_data(companies))))

----------------------------------------------------------------------------
(* Specification of the tenant lifecycle and the employee operations *)

SeedCompany(code, active) ==
    [id |-> SeedCompanyId(code), company_code |-> code,
     company_name |-> CompanyName(code), active |-> active]

\* A table as add_employee leaves it after adding the given employees in order.
RECURSIVE SeedTable(_, _)
SeedTable(company_code, employees) ==
    IF employees = << >> THEN EmptyTable
    ELSE LET e == employees[Len(employees)]
             data == EmployeeCreate(company_code, e[1], e[2])
             params == [data EXCEPT !.password = hash_password(data.password, "saltA")]
                           @@ [active |-> TRUE]
         IN InsertEmployee(SeedTable(company_code, SubSeq(employees, 1, Len(employees) - 1)),
                           params).table

Ann == CHOOSE p \in Profiles : p.first_name = "Ann"
Bob == CHOOSE p \in Profiles : p.first_name = "Bob"

\* The service starts on a database that already holds tenants, active or not, each
\* with its employee table (empty, or holding an employee added earlier), or without
\* it if the table was dropped by hand.
Init ==
    /\ \E registered \in SUBSET CompanyCodes :
         /\ \E active \in [registered -> BOOLEAN] :
              company_master = {SeedCompany(c, active[c]) : c \in registered}
         /\ \E with_table \in SUBSET registered :
              \E seeded \in SUBSET with_table :
                employee_tables =
                    [n \in {EmployeeTableName(c) : c \in with_table} |->
                       LET c == CHOOSE c \in with_table : EmployeeTableName(c) = n
                       IN IF c \in seeded THEN SeedTable(c, << <<"E1", Ann>> >>)
                                          ELSE EmptyTable]
    /\ employee_teams = << >>
    /\ teams_auto = 1
    /\ team_mapping = << >>
    /\ mapping_unique = FALSE
    /\ last = NoRequest
    /\ prev = NoRequest
    /\ nops = 0
    /\ created_teams = {}
    /\ added_members = << >>
    /\ team_tables = << >>
    /\ teams_cascade = FALSE
    /\ sessions = NoSessions

Next ==
    \/ \E data \in CompanyCreates, ddl_ok \in BOOLEAN : create_company(data, ddl_ok)
    \/ \E code \in CompanyCodes : delete_company(code)
    \/ \E data \in EmployeeCreates, salt \in Salts : add_employee(data, salt)
    \/ \E code \in CompanyCodes, emp \in EmployeeCodes : get_employee(code, emp)
    \/ \E code \in CompanyCodes, emp \in EmployeeCodes, data \in EmployeeUpdates :
         update_employee(code, emp, data)
    \/ \E code \in CompanyCodes, emp \in EmployeeCodes : delete_employee(code, emp)
    \/ \E companies \in Orderings(company_master) : login(companies)

Spec == Init /\ [][Next]_vars

----------------------------------------------------------------------------
(* teams/team.py *)

TeamCreate(company_code, team_name) ==
    [company_code |-> company_code, team_name |-> team_name,
     team_description |-> "The " \o team_name \o " team"]

\* The create_team requests.
TeamCreates == {TeamCreate(c, n) : c \in CompanyCodes, n \in TeamNames}

\* The shape every `except Exception as e` of team.py gives its answer; an HTTPException
\* raised inside the try is an Exception too and str(e) is "<status>: <detail>".
DatabaseError(e) == "Database error: " \o e

\* SELECT Id FROM `Employee Teams` WHERE `Company Code` = .. AND `Team Name` = ..
TeamsNamed(company_code, team_name) ==
    LET Match(t) == t.Company_Code = company_code /\ t.Team_Name = team_name
    IN SelectSeq(employee_teams, Match)

\* POST /team/teams
create_team(team_data) ==
    LET req == Request("create_team", team_data.company_code, "", Some(team_data))
        company == QueryCompany(team_data.company_code)
    IN
    /\ nops < MaxTeamOps
    /\ UNCHANGED << company_master, employee_tables, team_mapping, mapping_unique,
                    added_members, team_tables >>
    /\ IF company = {}
       THEN /\ AnswerTeam(Response(req, 404, "Company not found", NoBody))
            /\ UNCHANGED << employee_teams, teams_auto, created_teams >>
       ELSE IF TeamsNamed(team_data.company_code, team_data.team_name) # << >>
       THEN \* the 409 is raised inside the try and caught by its except Exception
            /\ AnswerTeam(Response(req, 500,
                      DatabaseError("409: Team name already exists for this company"),
                      NoBody))
            /\ UNCHANGED << employee_teams, teams_auto, created_teams >>
       ELSE /\ employee_teams' =
                  Append(employee_teams,
                         [Id |-> teams_auto, Company_Code |-> team_data.company_code,
                          Team_Name |-> team_data.team_name,
                          Team_Description |-> team_data.team_description])
            /\ teams_auto' = teams_auto + 1
            /\ created_teams' = created_teams \cup
                  {[team_id |-> teams_auto, company_code |-> team_data.company_code,
                    team_name |-> team_data.team_name]}
            /\ AnswerTeam(Response(req, 201, "Team created successfully",
                               Some([team_id |-> teams_auto])))

TeamMemberAdd(team_id, company_code, employee_codes) ==
    [team_id |-> team_id, company_code |-> company_code,
     employee_codes |-> employee_codes]

\* SELECT Id FROM `Employee Teams` WHERE `Id` = :team_id AND `Company Code` = :company_code
TeamOfCompany(team_id, company_code) ==
    LET Match(t) == t.Id = team_id /\ t.Company_Code = company_code
    IN SelectSeq(employee_teams, Match)

\* Fault: the loop passes over a code that is not in the employee table instead of
\* raising.
RECURSIVE ValuesToInsertSkipping(_, _)
ValuesToInsertSkipping(member_data, employee_codes) ==
    IF employee_codes = << >> THEN [missing |-> None, values |-> << >>]
    ELSE LET employee_code == Head(employee_codes)
             t == employee_tables[EmployeeTableName(member_data.company_code)]
             rest == ValuesToInsertSkipping(member_data, Tail(employee_codes))
         IN IF FetchEmployee(t, employee_code) = None
            THEN rest
            ELSE [missing |-> rest.missing,
                  values |-> << [Team_Id |-> member_data.team_id,
                                 Employee_Code |-> employee_code,
                                 Company_Code |-> member_data.company_code] >>
                             \o rest.values]

\* The loop of add_team_members: the codes of the request that are in the employee
\* table, up to the first that is not.
RECURSIVE ValuesToInsert(_, _)
ValuesToInsert(member_data, employee_codes) ==
    IF employee_codes = << >> THEN [missing |-> None, values |-> << >>]
    ELSE LET employee_code == Head(employee_codes)
             t == employee_tables[EmployeeTableName(member_data.company_code)]
         IN IF FetchEmployee(t, employee_code) = None
            THEN [missing |-> Some(employee_code), values |-> << >>]
            ELSE LET rest == ValuesToInsert(member_data, Tail(employee_codes))
                 IN [missing |-> rest.missing,
                     values |-> << [Team_Id |-> member_data.team_id,
                                    Employee_Code |-> employee_code,
                                    Company_Code |-> member_data.company_code] >>
                                \o rest.values]

\* Whether a sequence of mapping rows holds a (team, employee) pair twice.
HasDuplicatePair(rows) ==
    \E i, j \in 1..Len(rows) :
        /\ i < j
        /\ rows[i].Team_Id = rows[j].Team_Id
        /\ rows[i].Employee_Code = rows[j].Employee_Code

\* INSERT INTO `Employee Team Mapping` ... with a list of parameter sets.
InsertMappings(values) ==
    IF mapping_unique /\ HasDuplicatePair(team_mapping \o values)
    THEN [error |-> "IntegrityError", rows |-> team_mapping]
    ELSE [error |-> "", rows |-> team_mapping \o values]

\* POST /team/teams/members
add_team_members(member_data) ==
    LET req == Request("add_team_members", member_data.company_code, "",
                       Some(member_data))
        team == TeamOfCompany(member_data.team_id, member_data.company_code)
        EmployeeModel == get_employee_model_for_company(member_data.company_code)
    IN
    /\ nops < MaxTeamOps
    /\ UNCHANGED << company_master, employee_tables, employee_teams, teams_auto,
                    mapping_unique, created_teams, team_tables >>
    /\ IF team = << >>
       THEN /\ AnswerTeam(Response(req, 404, "Team not found for the given company.", NoBody))
            /\ UNCHANGED << team_mapping, added_members >>
       ELSE IF EmployeeModel = None
       THEN /\ AnswerTeam(Response(req, 404, "Employee table for company not found.", NoBody))
            /\ UNCHANGED << team_mapping, added_members >>
       ELSE LET checked == ValuesToInsert(member_data, member_data.employee_codes) IN
            IF checked.missing # None
            THEN /\ AnswerTeam(Response(req, 404, "Employee not found in the company.",
                                    NoBody))
                 /\ UNCHANGED << team_mapping, added_members >>
            ELSE LET ins == InsertMappings(checked.values) IN
                 IF ins.error # ""
                 THEN /\ AnswerTeam(Response(req, 500, DatabaseError(ins.error), NoBody))
                      /\ UNCHANGED << team_mapping, added_members >>
                 ELSE /\ team_mapping' = ins.rows
                      /\ added_members' =
                            [t \in DOMAIN added_members \cup {member_data.team_id} |->
                               (IF t \in DOMAIN added_members THEN added_members[t] ELSE {})
                               \cup (IF t = member_data.team_id
                                     THEN SeqToSet(member_data.employee_codes) ELSE {})]
                      /\ AnswerTeam(Response(req, 201, "Team members added successfully",
                                         NoBody))

\* DELETE FROM `Employee Team Mapping` WHERE `Team Id` = .. AND `Employee Code` = ..
DeleteMappings(team_id, employee_code) ==
    LET Keep(m) == ~(m.Team_Id = team_id /\ m.Employee_Code = employee_code)
    IN SelectSeq(team_mapping, Keep)

\* DELETE /team/teams/{team_id}/members/{employee_code}
remove_team_member(team_id, employee_code) ==
    LET req == Request("remove_team_member", "", employee_code, Some(team_id))
        kept == DeleteMappings(team_id, employee_code)
        rowcount == Len(team_mapping) - Len(kept)
    IN
    /\ nops < MaxTeamOps
    /\ UNCHANGED << company_master, employee_tables, employee_teams, teams_auto,
                    mapping_unique, created_teams, team_tables >>
    /\ team_mapping' = kept
    /\ added_members' =
          [t \in DOMAIN added_members |->
             IF t = team_id THEN added_members[t] \ {employee_code} ELSE added_members[t]]
    /\ IF rowcount = 0
       THEN \* the 404 is raised inside the try and caught by its except Exception
            AnswerTeam(Response(req, 500,
                   DatabaseError("404: Member not found in the specified team."), NoBody))
       ELSE AnswerTeam(Response(req, 200, "Employee removed from team successfully.", NoBody))

\* Fault: the teams query has no WHERE clause on the company code.
TeamsOfAnyCompany(company_code) == employee_teams

\* SELECT Id, `Team Name`, `Team Description` FROM `Employee Teams` WHERE `Company Code` = ..
TeamsOfCompany(company_code) ==
    LET Match(t) == t.Company_Code = company_code IN SelectSeq(employee_teams, Match)

\* The employees of one mapping row: the join of the employee table with that row.
JoinedEmployees(t, m) ==
    LET found == RowsWithCode(t, m.Employee_Code)
    IN [i \in 1..Len(found) |->
          [employee_code |-> found[i].Employee_Code, first_name |-> found[i].First_Name,
           last_name |-> found[i].Last_Name]]

\* SELECT .. FROM `<table>` AS t1 JOIN `Employee Team Mapping` AS t2
\*   ON t1.`Employee Code` = t2.`Employee Code`
\*   WHERE t2.`Team Id` = :team_id AND t2.`Company Code` = :company_code
RECURSIVE MembersQuery(_, _, _, _)
MembersQuery(table_name, mappings, team_id, company_code) ==
    IF mappings = << >> THEN << >>
    ELSE LET m == Head(mappings)
             rest == MembersQuery(table_name, Tail(mappings), team_id, company_code)
         IN IF m.Team_Id = team_id /\ m.Company_Code = company_code
            THEN JoinedEmployees(employee_tables[table_name], m) \o rest
            ELSE rest

TeamInfo(table_name, team, company_code) ==
    LET members_data == MembersQuery(table_name, team_mapping, team.Id, company_code)
    IN [team_id |-> team.Id, team_name |-> team.Team_Name,
        team_description |-> team.Team_Description,
        team_member_count |-> Len(members_data), team_members |-> members_data]

\* GET /team/teams/{company_code}
get_company_teams(company_code) ==
    LET req == Request("get_company_teams", company_code, "", NoArg)
        EmployeeModel == get_employee_model_for_company(company_code)
    IN
    /\ nops < MaxTeamOps
    /\ UNCHANGED << dbvars, created_teams, added_members, mapping_unique >>
    /\ IF EmployeeModel = None
       THEN \* the 404 is raised inside the try and caught by its except Exception
            AnswerTeam(Response(req, 500,
                   DatabaseError("404: Employee table for company not found."), NoBody))
       ELSE LET teams_data == TeamsOfCompany(company_code)
                teams_list == [i \in 1..Len(teams_data) |->
                                 TeamInfo(EmployeeModel[1], teams_data[i], company_code)]
            IN AnswerTeam(Response(req, 200, "",
                               Some([company_code |-> company_code,
                                     teams |-> teams_list])))

----------------------------------------------------------------------------
(* Specification of the team operations on tenants that have employees *)

\* The employee_codes lists of add_team_members requests (min_length=1).
EmployeeCodeLists ==
    { <<"E1">>, <<"E2">>, <<"E1", "E2">>, <<"E1", "E1">> }

\* ACME and GLOBEX exist with their employee tables: ACME employs E1 and E2, GLOBEX
\* only E1.  The shared team tables are empty.
InitTeams ==
    /\ company_master = {SeedCompany(c, TRUE) : c \in CompanyCodes}
    /\ employee_tables =
          (EmployeeTableName("ACME") :> SeedTable("ACME", << <<"E1", Ann>>, <<"E2", Bob>> >>))
          @@ (EmployeeTableName("GLOBEX") :> SeedTable("GLOBEX", << <<"E1", Bob>> >>))
    /\ employee_teams = << >>
    /\ teams_auto = 1
    /\ team_mapping = << >>
    /\ mapping_unique \in BOOLEAN
    /\ last = NoRequest
    /\ prev = NoRequest
    /\ nops = 0
    /\ created_teams = {}
    /\ added_members = << >>
    /\ team_tables = << >>
    /\ teams_cascade = FALSE
    /\ sessions = NoSessions

NextTeams ==
    \/ \E team_data \in TeamCreates : create_team(team_data)
    \/ \E team_id \in 1..teams_auto, code \in CompanyCodes, codes \in EmployeeCodeLists :
         add_team_members(TeamMemberAdd(team_id, code, codes))
    \/ \E team_id \in 1..teams_auto, emp \in EmployeeCodes :
         remove_team_member(team_id, emp)
    \/ \E code \in CompanyCodes : get_company_teams(code)

SpecTeams == InitTeams /\ [][NextTeams]_vars

----------------------------------------------------------------------------
(* Specification of what a tenant owns: teams of both kinds are made for tenants that *)
(* have employees, and tenants are deleted.                                           *)

\* What create_team leaves when it makes team 1, "Sales", for ACME.
SeedTeam ==
    [Id |-> 1, Company_Code |-> "ACME", Team_Name |-> "Sales",
     Team_Description |-> TeamCreate("ACME", "Sales").team_description]

\* What add_team_members leaves when it adds E1 to that team.
SeedMember == [Team_Id |-> 1, Employee_Code |-> "E1", Company_Code |-> "ACME"]

\* ACME and GLOBEX are registered; ACME employs E1 and E2, GLOBEX employs E1 or has
\* lost its employee table.  ACME may already have the team Sales, with or without E1.
InitOwnership ==
    /\ company_master = {SeedCompany(c, TRUE) : c \in CompanyCodes}
    /\ \E globex_table \in BOOLEAN :
         employee_tables =
            IF globex_table
            THEN (EmployeeTableName("ACME")
                     :> SeedTable("ACME", << <<"E1", Ann>>, <<"E2", Bob>> >>))
                 @@ (EmployeeTableName("GLOBEX") :> SeedTable("GLOBEX", << <<"E1", Bob>> >>))
            ELSE (EmployeeTableName("ACME")
                     :> SeedTable("ACME", << <<"E1", Ann>>, <<"E2", Bob>> >>))
    /\ \E with_team \in BOOLEAN, with_member \in BOOLEAN :
         /\ with_member => with_team
         /\ employee_teams = IF with_team THEN << SeedTeam >> ELSE << >>
         /\ teams_auto = IF with_team THEN 2 ELSE 1
         /\ created_teams =
               IF with_team
               THEN {[team_id |-> 1, company_code |-> "ACME", team_name |-> "Sales"]}
               ELSE {}
         /\ team_mapping = IF with_member THEN << SeedMember >> ELSE << >>
         /\ added_members = IF with_member THEN (1 :> {"E1"}) ELSE << >>
    /\ mapping_unique = FALSE
    /\ teams_cascade \in BOOLEAN
    /\ team_tables = << >>
    /\ last = NoRequest
    /\ prev = NoRequest
    /\ nops = 0
    /\ sessions = NoSessions

NextOwnership ==
    \/ \E data \in TeamCreates : nops < MaxOwnerOps /\ add_team(data)
    \/ \E team_data \in TeamCreates : nops < MaxOwnerOps /\ create_team(team_data)
    \/ \E team_id \in 1..teams_auto, code \in CompanyCodes, codes \in EmployeeCodeLists :
         nops < MaxOwnerOps /\ add_team_members(TeamMemberAdd(team_id, code, codes))
    \/ \E code \in CompanyCodes : nops < MaxOwnerOps /\ get_company_teams(code)
    \/ \E code \in CompanyCodes : nops < MaxOwnerOps /\ delete_company(code)

SpecOwnership == InitOwnership /\ [][NextOwnership]_vars

----------------------------------------------------------------------------
(* company/company_crud.py, one statement at a time: requests of different sessions  *)
(* interleave between the statements of create_company and delete_company, and the   *)
(* server may stop between two of them.                                              *)

\* The session works on: it is at statement pc of the handler of req.
Proceed(s, pc, req) ==
    /\ sessions' = [sessions EXCEPT ![s] =
                       [pc |-> pc, req |-> req, resp |-> NoRequest,
                        had_table |-> HasTable(EmployeeTableName(req.key))]]
    /\ UNCHANGED << last, prev, nops, teams_cascade >>

\* The session's request is answered and its database session closed.
Close(s, req, resp) ==
    /\ sessions' = [sessions EXCEPT ![s] =
                       [pc |-> "closed", req |-> req, resp |-> resp,
                        had_table |-> IF sessions[s].pc = "new"
                                      THEN HasTable(EmployeeTableName(req.key))
                                      ELSE sessions[s].had_table]]
    /\ last' = resp
    /\ nops' = nops + 1
    /\ UNCHANGED << prev, teams_cascade >>

\* create_company up to its existence check.
create_company_check(s, data) ==
    LET req == Request("create_company", data.company_code, "", Some(data))
        db_company == QueryCompany(data.company_code)
    IN
    /\ sessions[s].pc = "new"
    /\ UNCHANGED << dbvars, mapping_unique, created_teams, added_members >>
    /\ IF db_company # {}
       THEN Close(s, req, Response(req, 400, "Company code already exists.", NoBody))
       ELSE Proceed(s, "construct", req)

\* create_company from CompanyMaster(...) on: the constructor, db.add and db.commit,
\* which the unique key of `Company Code` refuses if another session has inserted the
\* code since the check, then the CREATE TABLE.
create_company_commit(s, ddl_ok) ==
    LET req == sessions[s].req
        data == req.arg[1]
    IN
    /\ sessions[s].pc = "construct"
    /\ UNCHANGED << teamvars, mapping_unique >>
    /\ IF ~CompanyMasterAccepts(CreateCompanyKwargs)
       THEN /\ Close(s, req, Response(req, 500, "TypeError", NoBody))
            /\ UNCHANGED << company_master, employee_tables >>
       ELSE IF QueryCompany(data.company_code) # {}
       THEN \* except IntegrityError: db.rollback()
            /\ Close(s, req, Response(req, 400, "Company code already exists.", NoBody))
            /\ UNCHANGED << company_master, employee_tables >>
       ELSE /\ company_master' = company_master \cup {NewCompanyRow(data)}
            /\ IF ddl_ok
               THEN /\ employee_tables' =
                          CreateEmployeeTable(employee_tables,
                                              EmployeeTableName(data.company_code))
                    /\ Close(s, req,
                             Response(req, 200,
                                      "Company created and employee table initialized.",
                                      NoBody))
               ELSE /\ UNCHANGED employee_tables
                    /\ Close(s, req,
                             Response(req, 500, "An error occurred during table creation",
                                      NoBody))

\* Fault: the registry row is deleted before the table is dropped.
DeleteStepsRowFirst == << "row", "drop" >>

\* The statements of delete_company after its check, in program order: the DROP TABLE,
\* then db.delete(company) with db.commit().
DeleteSteps == << "drop", "row" >>

\* The position after statement pc of delete_company.
AfterDeleteStep(pc) == IF pc = DeleteSteps[1] THEN DeleteSteps[2] ELSE "closed"

\* The session has run statement pc of delete_company.
DeleteStepDone(s) ==
    LET req == sessions[s].req
        next == AfterDeleteStep(sessions[s].pc)
    IN IF next = "closed"
       THEN Close(s, req,
                  Response(req, 200, "Company and its employee table deleted successfully.",
                           NoBody))
       ELSE /\ sessions' = [sessions EXCEPT ![s].pc = next]
            /\ UNCHANGED << last, prev, nops, teams_cascade >>

\* delete_company up to its existence check.
delete_company_check(s, company_code) ==
    LET req == Request("delete_company", company_code, "", NoArg)
        company == QueryCompany(company_code)
    IN
    /\ sessions[s].pc = "new"
    /\ UNCHANGED << dbvars, mapping_unique, created_teams, added_members >>
    /\ IF company = {}
       THEN Close(s, req, Response(req, 404, "Company not found.", NoBody))
       ELSE Proceed(s, DeleteSteps[1], req)

\* db.execute(text("DROP TABLE IF EXISTS ...")): a DDL statement commits at once.
delete_company_drop(s) ==
    /\ sessions[s].req.op = "delete_company"
    /\ sessions[s].pc = "drop"
    /\ employee_tables' =
          DropEmployeeTable(employee_tables, EmployeeTableName(sessions[s].req.key))
    /\ UNCHANGED << company_master, teamvars, mapping_unique >>
    /\ DeleteStepDone(s)

\* db.delete(company); db.commit(): a row another session deleted meanwhile matches
\* nothing, which the ORM only warns about.
delete_company_row(s) ==
    LET company_code == sessions[s].req.key IN
    /\ sessions[s].req.op = "delete_company"
    /\ sessions[s].pc = "row"
    /\ company_master' = company_master \ QueryCompany(company_code)
    /\ employee_teams' = CascadeDelete(employee_teams, company_code)
    /\ team_mapping' = CascadeDelete(team_mapping, company_code)
    /\ UNCHANGED << employee_tables, teams_auto, created_teams, added_members,
                    team_tables, mapping_unique >>
    /\ DeleteStepDone(s)

\* The server stops while the session is between two statements: the client gets no
\* answer, get_db closes the session, and what was committed stays.
crash(s) ==
    LET req == sessions[s].req IN
    /\ sessions[s].pc \notin {"new", "closed"}
    /\ UNCHANGED << dbvars, mapping_unique, created_teams, added_members >>
    /\ Close(s, req, Response(req, 0, "no response", NoBody))

NextSessions ==
    \/ \E s \in Sessions, data \in CompanyCreates : create_company_check(s, data)
    \/ \E s \in Sessions, ddl_ok \in BOOLEAN : create_company_commit(s, ddl_ok)
    \/ \E s \in Sessions, code \in CompanyCodes : delete_company_check(s, code)
    \/ \E s \in Sessions : delete_company_drop(s)
    \/ \E s \in Sessions : delete_company_row(s)
    \/ \E s \in Sessions : crash(s)

SpecSessions == Init /\ [][NextSessions]_vars

----------------------------------------------------------------------------
(* Requests whose tenant key is not a plain identifier.  No handler inspects the key: *)
(* company_code is a bare str in every request model and path, and the table name is  *)
(* the key put between backquotes in the statement text.                              *)

\* Keys that hold a backquote (and a quote): between the backquotes of the statement
\* they end the identifier early, and the server refuses the statement with a syntax
\* error, which the driver raises as ProgrammingError as it does for a missing table.
UnsafeCodes == {"AC`ME'"}

RequestKeys == {"ACME"} \cup UnsafeCodes

KeyCompanyCreates == {CompanyCreate(c) : c \in RequestKeys}

KeyEmployeeCreates ==
    {EmployeeCreate(c, e, p) : c \in RequestKeys, e \in EmployeeCodes, p \in Profiles}

NextKeys ==
    \/ \E data \in KeyCompanyCreates, ddl_ok \in BOOLEAN : create_company(data, ddl_ok)
    \/ \E code \in RequestKeys : delete_company(code)
    \/ \E data \in KeyEmployeeCreates, salt \in Salts : add_employee(data, salt)
    \/ \E code \in RequestKeys, emp \in EmployeeCodes : get_employee(code, emp)
    \/ \E code \in RequestKeys, emp \in EmployeeCodes, data \in EmployeeUpdates :
         update_employee(code, emp, data)
    \/ \E code \in RequestKeys, emp \in EmployeeCodes : delete_employee(code, emp)
    \/ \E companies \in Orderings(company_master) : login(companies)

SpecKeys == Init /\ [][NextKeys]_vars

----------------------------------------------------------------------------
(* The error kinds of the specification, read off a response *)

TenantNotFoundDetails ==
    {"Company does not exist.", "Company not found.", "Company not found"}

DuplicateKeyDetails ==
    {"Company code already exists.", "Employee code or email already exists."}

Kind(r) ==
    IF r.status \in {200, 201} THEN "Ok"
    ELSE IF r.status = 404 /\ r.detail \in TenantNotFoundDetails THEN "TenantNotFound"
    ELSE IF r.status = 404 THEN "NotFound"
    ELSE IF r.status \in {400, 409} /\ r.detail \in DuplicateKeyDetails THEN "DuplicateKey"
    ELSE IF r.status = 400 /\ r.detail = "No fields to update." THEN "NoFieldsProvided"
    ELSE IF r.status = 422 THEN "InvalidIdentifier"
    ELSE "InternalFailure"

\* This step answers a request to the handler op.
IsCall(op) == nops' = nops + 1 /\ last'.op = op

----------------------------------------------------------------------------
(* Properties *)

\* C1: create_company on a tenant key that is not in the registry succeeds; when it
\* returns, the registry holds exactly one row for the key, with the active flag set,
\* and the employee table <key>_Employees exists.
C1_CreateTenantActivates ==
    (last.op = "create_company" /\ ~last.existed) =>
        /\ Kind(last) = "Ok"
        /\ Cardinality(QueryCompany(last.key)) = 1
        /\ \A c \in QueryCompany(last.key) : c.active
        /\ HasTable(EmployeeTableName(last.key))

\* C2: create_company on a tenant key that is already in the registry answers
\* DuplicateKey and changes nothing: the registry still holds exactly one row for the
\* key and no employee table is created.
C2_DuplicateCreateRejected ==
    [][ (IsCall("create_company") /\ last'.existed) =>
          /\ Kind(last') = "DuplicateKey"
          /\ company_master' = company_master
          /\ employee_tables' = employee_tables
          /\ Cardinality({c \in company_master' : c.company_code = last'.key}) = 1
      ]_vars

C2_Witness ==
    /\ last.op = "create_company"
    /\ last.existed
    /\ last.status = 400
    /\ HasTable(EmployeeTableName(last.key))

\* C3: create_company(K) on a new key K followed immediately by get_employee(K, c)
\* answers NotFound (the table exists and is empty), never TenantNotFound or a crash.
C3_GetAfterCreateNotFound ==
    ( /\ prev.op = "create_company"
      /\ ~prev.existed
      /\ last.op = "get_employee"
      /\ last.key = prev.key ) =>
        Kind(last) = "NotFound"

\* C4: once delete_company(K) has succeeded, get_employee(K, c) answers
\* TenantNotFound, not a raw database error.
C4_GetAfterDeleteTenantNotFound ==
    ( /\ prev.op = "delete_company"
      /\ prev.status = 200
      /\ last.op = "get_employee"
      /\ last.key = prev.key ) =>
        Kind(last) = "TenantNotFound"

\* C5: add_employee for an existing tenant whose table already holds a row with the
\* employee code answers DuplicateKey, and afterwards the table holds exactly one row
\* for that code, the row it held before.
C5_DuplicateEmployeeRejected ==
    [][ ( /\ IsCall("add_employee")
          /\ last'.existed
          /\ HasTable(EmployeeTableName(last'.key))
          /\ RowsWithCode(employee_tables[EmployeeTableName(last'.key)], last'.code)
                 # << >> ) =>
          /\ Kind(last') = "DuplicateKey"
          /\ RowsWithCode(employee_tables'[EmployeeTableName(last'.key)], last'.code)
               = RowsWithCode(employee_tables[EmployeeTableName(last'.key)], last'.code)
          /\ Len(RowsWithCode(employee_tables'[EmployeeTableName(last'.key)],
                              last'.code)) = 1
      ]_vars

C5_Witness ==
    /\ last.op = "add_employee"
    /\ last.status = 400
    /\ prev.op = "add_employee"
    /\ prev.status = 200
    /\ prev.key = last.key
    /\ prev.code = last.code
    /\ prev.arg # last.arg

\* add_employee(K, E) succeeded and the next request is get_employee(K, E.code).
RoundTrip ==
    /\ prev.op = "add_employee"
    /\ prev.status = 200
    /\ last.op = "get_employee"
    /\ last.key = prev.key
    /\ last.code = prev.code

\* The record get_employee returned equals the request E in the fields that are
\* stored as supplied.
SameStoredFields(R, E) ==
    /\ R.Company_Code = E.company_code
    /\ R.Employee_Code = E.employee_code
    /\ R.First_Name = E.first_name
    /\ R.Last_Name = E.last_name
    /\ R.Email = E.email
    /\ R.Mobile = E.mobile
    /\ R.Designation = E.designation
    /\ R.Role = E.role

\* C6 as stated: add_employee(K, E) for a code not yet in the table, followed by
\* get_employee(K, E.code), returns a record equal to E in all supplied fields.
C6_RoundTripAllFields ==
    RoundTrip =>
        /\ last.status = 200
        /\ SameStoredFields(last.body[1], prev.arg[1])
        /\ last.body[1].Password = prev.arg[1].password

\* C6 amended: the record equals E in every supplied field except the password, for
\* which it holds a salted hash of E.password and not the plaintext.
C6_RoundTripButPassword ==
    RoundTrip =>
        /\ last.status = 200
        /\ SameStoredFields(last.body[1], prev.arg[1])
        /\ last.body[1].Password # prev.arg[1].password
        /\ \E salt \in Salts :
              last.body[1].Password = hash_password(prev.arg[1].password, salt)

C6_Witness ==
    /\ RoundTrip
    /\ last.status = 200
    /\ last.body[1].Id > 1

RECURSIVE SumCounts(_)
SumCounts(companies_list) ==
    IF companies_list = << >> THEN 0
    ELSE Head(companies_list).employees_count + SumCounts(Tail(companies_list))

\* What the dashboard must report for one registry row.
ExpectedEntry(c) ==
    [company_id |-> c.id, company_name |-> c.company_name,
     company_code |-> c.company_code,
     employees_count |->
        IF HasTable(EmployeeTableName(c.company_code))
        THEN Len(employee_tables[EmployeeTableName(c.company_code)].rows)
        ELSE 0]

\* C7: the dashboard never fails because of a tenant's table: it lists every registry
\* row, active or not, exactly once, with 0 employees where the table is missing and
\* the row count elsewhere; companies_count is the number of registry rows and
\* employees_count the sum of the listed counts.
C7_DashboardDegradesGracefully ==
    last.op = "login" =>
        /\ last.status = 200
        /\ LET d == last.body[1] IN
           /\ d.companies_count = Cardinality(company_master)
           /\ Len(d.companies_list) = Cardinality(company_master)
           /\ \A c \in company_master :
                 Cardinality({i \in 1..Len(d.companies_list) :
                                 d.companies_list[i].company_code = c.company_code}) = 1
           /\ \A c \in company_master :
                 \E i \in 1..Len(d.companies_list) : d.companies_list[i] = ExpectedEntry(c)
           /\ d.employees_count = SumCounts(d.companies_list)

C7_Witness ==
    /\ last.op = "login"
    /\ \E c \in company_master : ~HasTable(EmployeeTableName(c.company_code)) /\ ~c.active
    /\ \E c \in company_master :
          /\ HasTable(EmployeeTableName(c.company_code))
          /\ Len(employee_tables[EmployeeTableName(c.company_code)].rows) = 2
    /\ last.body[1].employees_count = 2

CreatedFor(company_code) == {t \in created_teams : t.company_code = company_code}

AddedTo(team_id) ==
    IF team_id \in DOMAIN added_members THEN added_members[team_id] ELSE {}

MemberCodes(team) == {team.team_members[i].employee_code : i \in 1..Len(team.team_members)}

\* C8: after any sequence of create_team, add_team_members and remove_team_member
\* requests, get_company_teams(K) for an existing tenant K with employees returns
\* exactly the teams created for K, each once, and the members of each are exactly the
\* employee codes added to it and not removed since (each listed once when the mapping
\* table has a unique key on the pair; a code added twice is listed twice otherwise).
C8_TeamsAndMembersListed ==
    last.op = "get_company_teams" =>
        /\ last.status = 200
        /\ LET teams == last.body[1].teams IN
           /\ Len(teams) = Cardinality(CreatedFor(last.key))
           /\ \A t \in CreatedFor(last.key) :
                 Cardinality({i \in 1..Len(teams) :
                                 /\ teams[i].team_id = t.team_id
                                 /\ teams[i].team_name = t.team_name}) = 1
           /\ \A i \in 1..Len(teams) :
                 /\ MemberCodes(teams[i]) = AddedTo(teams[i].team_id)
                 /\ teams[i].team_member_count = Len(teams[i].team_members)
                 /\ mapping_unique =>
                       teams[i].team_member_count = Cardinality(AddedTo(teams[i].team_id))

\* A team that had a member is listed with none after the member was removed.
C8_Witness ==
    /\ last.op = "get_company_teams"
    /\ last.status = 200
    /\ \E i \in 1..Len(last.body[1].teams) :
          /\ last.body[1].teams[i].team_id \in DOMAIN added_members
          /\ last.body[1].teams[i].team_members = << >>

\* C9: update_employee with no field supplied answers NoFieldsProvided and leaves
\* every row and table as it was.
C9_EmptyUpdateRejected ==
    [][ (IsCall("update_employee") /\ last'.arg[1] = NoUpdate) =>
          /\ Kind(last') = "NoFieldsProvided"
          /\ UNCHANGED dbvars
      ]_vars

C9_Witness ==
    /\ last.op = "update_employee"
    /\ last.arg[1] = NoUpdate
    /\ last.status = 400
    /\ HasTable(EmployeeTableName(last.key))
    /\ RowsWithCode(employee_tables[EmployeeTableName(last.key)], last.code) # << >>

\* C10: update_employee with at least one field supplied, when the tenant's table has
\* no row with the employee code, fails with NotFound.
C10_UpdateOfMissingRowNotFound ==
    ( /\ last.op = "update_employee"
      /\ last.arg[1] # NoUpdate
      /\ HasTable(EmployeeTableName(last.key))
      /\ RowsWithCode(employee_tables[EmployeeTableName(last.key)], last.code) = << >> ) =>
        Kind(last) = "NotFound"

\* Sessions s and t both ran create_company for the same key, both found no row for it
\* in their existence check, and both have been answered.
Raced(s, t) ==
    /\ s # t
    /\ sessions[s].req.op = "create_company"
    /\ sessions[t].req.op = "create_company"
    /\ sessions[s].req.key = sessions[t].req.key
    /\ ~sessions[s].req.existed
    /\ ~sessions[t].req.existed
    /\ sessions[s].pc = "closed"
    /\ sessions[t].pc = "closed"
    /\ sessions[s].resp.status # 0
    /\ sessions[t].resp.status # 0

\* C11: when two create_company requests for the same unused key both pass the
\* existence check before either inserts, the registry afterwards holds exactly one row
\* for the key, one caller has succeeded and the other was answered DuplicateKey.
C11_RaceLoserGetsDuplicateKey ==
    \A s, t \in Sessions :
        Raced(s, t) =>
            /\ Cardinality(QueryCompany(sessions[s].req.key)) = 1
            /\ {Kind(sessions[s].resp), Kind(sessions[t].resp)} = {"Ok", "DuplicateKey"}

Registered(company_code) == QueryCompany(company_code) # {}

\* C17: delete_company for a key that is not in the registry answers not-found and
\* changes nothing; otherwise the registry row goes only after the employee table has
\* gone, so that in no state, between the statements or after a stop between them, a
\* table <key>_Employees exists whose key has no registry row.
C17_DropPrecedesRowDelete ==
    [][ /\ (IsCall("delete_company") /\ ~last'.existed) =>
              /\ last'.status = 404
              /\ Kind(last') \in {"NotFound", "TenantNotFound"}
              /\ UNCHANGED dbvars
        /\ \A k \in CompanyCodes :
              /\ (Registered(k) /\ ~Registered(k)') => ~HasTable(EmployeeTableName(k))
              /\ HasTable(EmployeeTableName(k)) => Registered(k)
              /\ HasTable(EmployeeTableName(k))' => Registered(k)'
      ]_vars

\* A delete_company that found the row and the table stopped after the DROP TABLE:
\* the registry row is still there and the table is gone.
C17_Witness ==
    \E s \in Sessions :
        /\ sessions[s].req.op = "delete_company"
        /\ sessions[s].req.existed
        /\ sessions[s].had_table
        /\ sessions[s].pc = "closed"
        /\ sessions[s].resp.detail = "no response"
        /\ Registered(sessions[s].req.key)
        /\ ~HasTable(EmployeeTableName(sessions[s].req.key))
        /\ \E t \in Sessions :
              /\ sessions[t].req.op = "delete_company"
              /\ ~sessions[t].req.existed
              /\ sessions[t].resp.status = 404

\* The handlers that derive a table name from the tenant key of the request (login
\* derives it from the keys of the registry rows).
TableNameOps ==
    {"create_company", "delete_company", "add_employee", "get_employee",
     "update_employee", "delete_employee", "login"}

\* C12: a request to a handler that derives a table name from the tenant key, with a
\* key that holds a character unsafe in an identifier, is answered InvalidIdentifier
\* (the request is refused as invalid before a statement is sent, so never with the
\* server's ProgrammingError) and leaves the registry and every table unchanged.
C12_UnsafeKeyRejected ==
    [][ ( /\ nops' = nops + 1
          /\ last'.op \in TableNameOps
          /\ last'.key \in UnsafeCodes ) =>
          /\ Kind(last') = "InvalidIdentifier"
          /\ last'.detail # "ProgrammingError"
          /\ UNCHANGED dbvars
      ]_vars

\* C13: nothing of a tenant outlives it: once delete_company has removed the key from
\* the registry there is no table <key>_Employees, no table <key>_Teams, no row of
\* "Employee Teams" and no row of "Employee Team Mapping" that carries the key (every
\* tenant starts registered, so a key without a registry row is a deleted tenant).
C13_NothingOutlivesTenant ==
    \A k \in CompanyCodes :
        ~Registered(k) =>
            /\ ~HasTable(EmployeeTableName(k))
            /\ TeamTableName(k) \notin DOMAIN team_tables
            /\ \A i \in 1..Len(employee_teams) : employee_teams[i].Company_Code # k
            /\ \A i \in 1..Len(team_mapping) : team_mapping[i].Company_Code # k

\* C14: get_company_teams(K) answers NotFound exactly when the table K_Employees does
\* not exist; when the table exists it answers with the list of K's teams.
C14_TeamsNotFoundIffNoTable ==
    last.op = "get_company_teams" =>
        /\ (Kind(last) = "NotFound") <=> ~HasTable(EmployeeTableName(last.key))
        /\ HasTable(EmployeeTableName(last.key)) =>
              /\ Kind(last) = "Ok"
              /\ Len(last.body[1].teams) = Len(TeamsOfCompany(last.key))

\* The employee table of company_code holds a row with the employee code.
Employs(company_code, employee_code) ==
    /\ HasTable(EmployeeTableName(company_code))
    /\ RowsWithCode(employee_tables[EmployeeTableName(company_code)], employee_code)
          # << >>

\* C15: a row of "Employee Team Mapping" is created only for an employee code that is
\* in the employee table of the row's company and a team that belongs to that company;
\* an add_team_members request with a code that is not in the company's table is
\* answered NotFound and creates no row, not even for its codes that are there.
C15_MembersOnlyOfKnownEmployees ==
    [][ /\ \A i \in (Len(team_mapping) + 1)..Len(team_mapping') :
              /\ Employs(team_mapping'[i].Company_Code, team_mapping'[i].Employee_Code)
              /\ TeamOfCompany(team_mapping'[i].Team_Id, team_mapping'[i].Company_Code)
                    # << >>
        /\ ( /\ IsCall("add_team_members")
             /\ \E c \in SeqToSet(last'.arg[1].employee_codes) : ~Employs(last'.key, c) ) =>
              /\ Kind(last') = "NotFound"
              /\ team_mapping' = team_mapping
      ]_vars

\* A request for a team of GLOBEX naming E1, whom GLOBEX employs, and E2, whom it does
\* not, was refused.
C15_Witness ==
    /\ last.op = "add_team_members"
    /\ last.arg[1].employee_codes = << "E1", "E2" >>
    /\ TeamOfCompany(last.arg[1].team_id, last.key) # << >>
    /\ Employs(last.key, "E1")
    /\ ~Employs(last.key, "E2")
    /\ last.status = 404
    /\ last.detail = "Employee not found in the company."

\* C16: the state a failed CREATE TABLE of create_company leaves (a registry row for K
\* and no table K_Employees) is detected on the next access: get_employee and
\* add_employee for K answer with an error, neither success nor the NotFound of an
\* empty table, and the dashboard does not answer as if K had no employees.
C16_InconsistencyDetected ==
    /\ ( /\ last.op \in {"get_employee", "add_employee"}
         /\ last.existed
         /\ ~HasTable(EmployeeTableName(last.key)) ) =>
          Kind(last) \notin {"Ok", "NotFound"}
    /\ ( /\ last.op = "login"
         /\ \E c \in company_master : ~HasTable(EmployeeTableName(c.company_code)) ) =>
          Kind(last) # "Ok"
=============================================================================
